---------------------------- MODULE Spec2Model ----------------------------
(***************************************************************************)
(* Credential lifecycle of the law-office application: the per-user Google *)
(* Calendar token (accounts/views_calendar.py), the application-wide Drive *)
(* token (accounts/views_drive_oauth.py, core/google_drive.py).            *)
(*                                                                         *)
(* A web session is the Django session dictionary of one browser.  The     *)
(* durable calendar store is the GoogleOAuthToken table (one row per       *)
(* user), the durable Drive store is the pickled token file.               *)
(*                                                                         *)
(* Time is a discrete clock.  An access token is identified by the tick    *)
(* at which the provider issued it; it expires TokenTTL ticks later.       *)
(* Sub-tick detail of timestamps is below the resolution of the model.     *)
(*                                                                         *)
(* The case files (cases/, core/google_drive.py) are the Drive items that  *)
(* are not trashed, the Caso and ArchivoCaso rows and the number of        *)
(* ArchivoEvento rows; each case view is an operator from that state to    *)
(* the state it leaves and its response.                                   *)
(***************************************************************************)
EXTENDS Integers, Sequences, FiniteSets, TLC

(***************************************************************************)
(* Bounds of the model.                                                    *)
(***************************************************************************)
MaxTime == 2
MaxNonce == 2

(***************************************************************************)
(* Lifetime, in ticks, of an access token the provider issues.             *)
(***************************************************************************)
TokenTTL == 1

(***************************************************************************)
(* Population: two browser sessions of the same logged-in user and one     *)
(* anonymous browser session.                                              *)
(***************************************************************************)
Users == {"u1"}
Anon == "anonymous"
Sessions == {"s1", "s2", "s0"}
SessUser(s) == IF s = "s0" THEN Anon ELSE "u1"
is_authenticated(s) == SessUser(s) # Anon

(***************************************************************************)
(* A scope string is the sequence of its dot-separated segments:           *)
(* ".../auth/calendar.readonly" is <<"calendar", "readonly">>.             *)
(***************************************************************************)
CAL_SCOPE == <<"calendar">>
SCOPES == {CAL_SCOPE}
DRIVE_SCOPES == {<<"drive">>}
ScopeStrings ==
  {<<"calendar">>, <<"calendar", "readonly">>, <<"calendar", "events">>,
   <<"drive">>}

(***************************************************************************)
(* Python's None, and the absent refresh_token.  Values that may be a      *)
(* record or None are compared as records.                                 *)
(***************************************************************************)
None == [none |-> TRUE]
NoRT == "no_refresh_token"
RT == "refresh_token"
NoState == 0
Nonces == 1..MaxNonce

(***************************************************************************)
(* google.oauth2.credentials.Credentials as the code reads it: token,      *)
(* refresh_token, expiry, scopes.                                          *)
(***************************************************************************)
Creds(tok, rt, exp, sc) ==
  [token |-> tok, refresh_token |-> rt, expiry |-> exp, scopes |-> sc]

\* creds.expired
expired(c, now) == now >= c.expiry

\* creds.to_json(): the serialised fields; a None field is left out.
to_json(c) ==
  [token |-> c.token, refresh_token |-> c.refresh_token,
   expiry |-> c.expiry, scopes |-> c.scopes]

\* Credentials.from_authorized_user_info(info, scopes) raises ValueError
\* when info has no refresh_token.
ParsesAsUserInfo(info) == info # None /\ info.refresh_token # NoRT

\* Credentials.from_authorized_user_info(info, scopes): the scopes argument
\* replaces the scopes stored in info.
from_authorized_user_info(info, scopes) ==
  Creds(info.token, info.refresh_token, info.expiry, scopes)

\* The credentials the provider's token endpoint yields at time now.
IssuedCreds(now, rt, sc) == Creds(now, rt, now + TokenTTL, sc)

\* creds.refresh(GoogleRequest()) when the provider accepts the grant: new
\* access token and expiry, refresh_token and scopes kept.
refreshed(c, now) == [c EXCEPT !.token = now, !.expiry = now + TokenTTL]

(***************************************************************************)
(* State.                                                                  *)
(***************************************************************************)
VARIABLES
  clock,      \* current time
  session,    \* session[s]: the Django session dictionary of browser s
  dbTok,      \* dbTok[u]: GoogleOAuthToken.credentials_json of user u, or None
  tokenFile,  \* the pickled Drive credentials at TOKEN_PATH, or None
  config,     \* which client secrets the deployment provides
  inflight,   \* inflight[w]: the request worker w has suspended in a refresh
  last,       \* the last completed request: integration, result
  env,        \* the Drive settings of the deployment (service account, root)
  drive,      \* the items Drive holds that are not trashed
  driveNext,  \* the id Drive gives to the next item it creates
  casos,      \* casos[c]: the Caso row with id c
  archivos,   \* the ArchivoCaso rows
  eventos     \* the number of ArchivoEvento rows (the bitacora)

\* The state of the case files: what the credential lifecycle leaves alone.
caseVars == <<env, drive, driveNext, casos, archivos, eventos>>

vars == <<clock, session, dbTok, tokenFile, config, inflight, last,
          env, drive, driveNext, casos, archivos, eventos>>

EmptySession ==
  [google_creds |-> None, google_oauth_state |-> NoState,
   google_oauth_redirect_uri |-> NoState, google_drive_oauth_state |-> NoState]

\* What a request leaves behind for the observer: the integration it
\* belongs to, its result, and whether the provider was asked to refresh.
Done(of, res, refresh) == [of |-> of, res |-> res, refresh |-> refresh]

Workers == {"w1", "w2"}

\* The client secrets file serves both integrations; the calendar views
\* also accept the inline JSON.
Configs == {c \in [cal : BOOLEAN, drive : BOOLEAN] : c.drive => c.cal}

(***************************************************************************)
(* Case files (cases/, core/google_drive.py).  Drive is the set of items   *)
(* that are not trashed; an item has an id, a name, a parent and a type.   *)
(* Ids are numbers: NoId is the drive_folder_id of a case that has no      *)
(* folder (None or the empty string), RootContainerId the configured       *)
(* GOOGLE_SHARED_DRIVE_ID, MyDriveId the root of the identity that owns    *)
(* the credential; Drive numbers the items it creates from FirstId on.     *)
(***************************************************************************)
MaxItems == 5
MaxEventos == 2
MaxSaveDepth == 3

NoId == 0
RootContainerId == 1
MyDriveId == 2
FirstId == MyDriveId + 1
ItemIds == FirstId..(MyDriveId + MaxItems)

Folder == "application/vnd.google-apps.folder"
GoogleDoc == "application/vnd.google-apps.document"
Docx == "application/vnd.openxmlformats-officedocument.wordprocessingml.document"

Item(id, name, parent, mime) ==
  [id |-> id, name |-> name, parent |-> parent, mimeType |-> mime]

\* The environment of core/google_drive.py: the inline service account
\* JSON, the three places of the service account file, the root container.
\* bufete/settings.py points GOOGLE_APPLICATION_CREDENTIALS at the service
\* account it is given.
Envs ==
  {e \in [sa_json : BOOLEAN, gac : BOOLEAN, keys : BOOLEAN,
          sa_file : BOOLEAN, root : BOOLEAN] :
     (e.sa_json \/ e.sa_file) => e.gac}

\* The people who send requests about the case: a staff user, the lawyer
\* responsible for the case, a lawyer with an AccesoCaso that allows
\* editing, one with a read-only AccesoCaso, a lawyer without any, and a
\* browser that is not logged in.
Requesters == {"admin", "responsable", "editor", "lector", "otro", Anon}
is_superuser(u) == u = "admin"

\* The one case of the model, and its folder names: the handler of
\* post_save names the folder "<codigo> - <titulo>", the file list names it
\* "<codigo>".
CasoIds == {1}
ClienteName == "cliente.nombre_completo"
CodigoCaso == "CASO-0001"
ESTADOS == {"ABIERTO", "EN_PROCESO", "CERRADO"}
NewCaso(resp) ==
  [abogado_responsable |-> resp, estado |-> "ABIERTO",
   drive_folder_id |-> NoId, codigo_caso |-> CodigoCaso]

\* The AccesoCaso rows.
AccesoCaso ==
  {[caso |-> 1, abogado |-> "editor", puede_editar |-> TRUE],
   [caso |-> 1, abogado |-> "lector", puede_editar |-> FALSE]}

\* ArchivoCaso(drive_file_id, caso, nombre, tipo_mime)
ArchivoCaso(id, c, nombre, mime) ==
  [drive_file_id |-> id, caso |-> c, nombre |-> nombre, tipo_mime |-> mime]

\* The case state of a deployment in which no case request was served yet:
\* the case was created while Drive refused the folder.
InitCases ==
  /\ env = [sa_json |-> FALSE, gac |-> FALSE, keys |-> FALSE,
            sa_file |-> FALSE, root |-> TRUE]
  /\ drive = {}
  /\ driveNext = FirstId
  /\ casos = [c \in CasoIds |-> NewCaso("responsable")]
  /\ archivos = {}
  /\ eventos = 0

Init ==
  /\ clock = 0
  /\ session = [s \in Sessions |-> EmptySession]
  /\ dbTok = [u \in Users |-> None]
  /\ tokenFile = None
  /\ config \in Configs
  /\ inflight = [w \in Workers |-> None]
  /\ last = Done("none", "none", FALSE)
  /\ InitCases

Tick ==
  /\ clock < MaxTime
  /\ clock' = clock + 1
  /\ UNCHANGED <<session, dbTok, tokenFile, config, inflight, last, caseVars>>

\* The answers of the provider: to a refresh exchange, to an API call made
\* with the credential, to a code exchange.
Grants == {"ok", "invalid_grant"}
ApiOutcomes == {"ok", "HttpError401", "RefreshError"}
Exchanges == {"ok", "no_refresh_token", "error"}

(***************************************************************************)
(* Calendar: the credential lookup of accounts/views_calendar.py.          *)
(***************************************************************************)

\* s.startswith(prefix + ".")
StartsWithDot(s, prefix) ==
  /\ Len(s) > Len(prefix)
  /\ SubSeq(s, 1, Len(prefix)) = prefix

\* A scope check that lets every credential through.
has_cal_scope_any(scopes) == TRUE

\* "Verificar scope minimo": the condition under which the lookup keeps
\* the credential.
has_cal_scope(scopes) ==
  \/ CAL_SCOPE \in scopes
  \/ \E sc \in scopes : StartsWithDot(sc, CAL_SCOPE)

\* The row of the user of session s.
Row(s) == IF is_authenticated(s) THEN dbTok[SessUser(s)] ELSE None

\* _db_get_user_creds: the row of the user parsed with SCOPES; None when
\* there is no row.  A row that does not parse makes the call raise.
_db_get_user_creds(u) ==
  IF dbTok[u] = None THEN [creds |-> None, exc |-> "none"]
  ELSE IF ~ParsesAsUserInfo(dbTok[u]) THEN [creds |-> None, exc |-> "ValueError"]
  ELSE [creds |-> from_authorized_user_info(dbTok[u], SCOPES), exc |-> "none"]

\* Steps 1 and 2 of _get_valid_creds: the session copy first (a copy that
\* does not parse is ignored), then the row of the user, which is copied
\* into the session.
LoadCreds(s) ==
  LET data == session[s].google_creds
      fromSession == IF data # None /\ ParsesAsUserInfo(data)
                     THEN from_authorized_user_info(data, SCOPES)
                     ELSE None
      db == IF fromSession = None /\ is_authenticated(s)
            THEN _db_get_user_creds(SessUser(s))
            ELSE [creds |-> None, exc |-> "none"]
  IN  IF fromSession # None
      THEN [creds |-> fromSession, google_creds |-> data, exc |-> "none"]
      ELSE IF db.creds # None
      THEN [creds |-> db.creds, google_creds |-> to_json(db.creds), exc |-> "none"]
      ELSE [creds |-> None, google_creds |-> data, exc |-> db.exc]

\* A lookup that trusts the stored credential whatever its expiry.
NeedsRefresh_never(c, now) == FALSE

\* A lookup that renews the credential at every request.
NeedsRefresh_always(c, now) == TRUE

\* "if creds.expired" and "if not creds.refresh_token" of _get_valid_creds
NeedsRefresh(c, now) == expired(c, now)
CanRefresh(c) == c.refresh_token # NoRT

\* The rest of _get_valid_creds for the credential ld loaded by LoadCreds;
\* grant is the provider's answer to the refresh exchange and now the time
\* of that answer.  Yields the credential returned (out), the exception
\* raised (exc), the session copy and the row of the user as the call leaves
\* them, and whether the provider was asked to refresh.
EnsureFresh(s, ld, grant, now) ==
  LET c == ld.creds
      keep(out, exc) ==
        [out |-> out, exc |-> exc, google_creds |-> ld.google_creds,
         row |-> Row(s), refresh |-> FALSE]
      checked(cr) == IF has_cal_scope(cr.scopes) THEN cr ELSE None
  IN  IF c = None THEN keep(None, ld.exc)
      ELSE IF NeedsRefresh(c, now)
      THEN IF ~CanRefresh(c) THEN keep(None, "none")
           ELSE IF grant # "ok"
           THEN [keep(None, "RefreshError") EXCEPT !.refresh = TRUE]
           ELSE LET r == refreshed(c, now)
                IN  [out |-> checked(r), exc |-> "none",
                     google_creds |-> to_json(r),
                     row |-> IF is_authenticated(s) THEN to_json(r) ELSE None,
                     refresh |-> TRUE]
      ELSE keep(checked(c), "none")

_get_valid_creds(s, grant) == EnsureFresh(s, LoadCreds(s), grant, clock)

\* Whether the lookup in session s asks the provider to refresh.
WillRefresh(s) ==
  LET c == LoadCreds(s).creds
  IN  c # None /\ NeedsRefresh(c, clock) /\ CanRefresh(c)

\* A clearing that empties the whole session.
_clear_google_session_all(d) == EmptySession

\* _clear_google_session
_clear_google_session(d) ==
  [d EXCEPT !.google_creds = None, !.google_oauth_state = NoState,
            !.google_oauth_redirect_uri = NoState]

\* The effect of a request on the session dictionary, on the row of the
\* user, and its result.
Effect(sess, row, res, refresh) ==
  [session |-> sess, row |-> row, res |-> res, refresh |-> refresh]

\* The part of an event view after the lookup r returned a credential: the
\* credential is handed to the API client and the provider answers api.
\* Only a RefreshError clears the session keys; no branch touches the row.
CallApi(s, r, api) ==
  LET d == [session[s] EXCEPT !.google_creds = r.google_creds]
  IN  Effect(IF api = "RefreshError" THEN _clear_google_session(d) ELSE d,
             r.row,
             IF api = "RefreshError" THEN "ApiRefreshError" ELSE api,
             r.refresh)

\* gcal_eventos: the lookup is outside the try block, so an exception of
\* the lookup is unhandled; a 500 response does not save the session.
gcal_eventos_effect(s, grant, api) ==
  LET r == _get_valid_creds(s, grant)
  IN  IF r.exc # "none"
      THEN Effect(session[s], r.row, "Unhandled_" \o r.exc, r.refresh)
      ELSE IF r.out = None
      THEN Effect([session[s] EXCEPT !.google_creds = r.google_creds], r.row,
                  "not_connected", r.refresh)
      ELSE CallApi(s, r, api)

\* gcal_crear_evento (POST), gcal_event_detail, gcal_event_edit and
\* gcal_event_delete: the lookup is inside the try block.
event_view_after(s, r, api) ==
  LET d == [session[s] EXCEPT !.google_creds = r.google_creds]
  IN  IF r.exc = "RefreshError"
      THEN Effect(_clear_google_session(d), r.row, "RefreshError", r.refresh)
      ELSE IF r.exc # "none"
      THEN Effect(d, r.row, "Error_" \o r.exc, r.refresh)
      ELSE IF r.out = None
      THEN Effect(d, r.row, "not_connected", r.refresh)
      ELSE CallApi(s, r, api)

event_view_effect(s, grant, api) ==
  event_view_after(s, _get_valid_creds(s, grant), api)

\* The row of the user of session s set to r.
WithRow(s, r) ==
  IF is_authenticated(s) THEN [dbTok EXCEPT ![SessUser(s)] = r] ELSE dbTok

\* A request of session s completes with effect e.
Store(s, e) ==
  /\ session' = [session EXCEPT ![s] = e.session]
  /\ dbTok' = WithRow(s, e.row)
  /\ last' = Done("calendar", e.res, e.refresh)
  /\ UNCHANGED <<clock, tokenFile, config, caseVars>>

Apply(op, s, e) == Store(s, e) /\ UNCHANGED inflight

\* Views open to anonymous requests.
login_required_off(s, e) == e

\* @login_required: an anonymous request is sent to the login page.
login_required(s, e) ==
  IF is_authenticated(s) THEN e
  ELSE Effect(session[s], Row(s), "login_required", FALSE)

\* The provider answers that a request of session s can meet.
GrantsOf(s) == IF WillRefresh(s) THEN Grants ELSE {"ok"}
ApisOf(s, grant) ==
  IF _get_valid_creds(s, grant).out # None THEN ApiOutcomes ELSE {"ok"}

gcal_eventos(s) ==
  \E grant \in GrantsOf(s) : \E api \in ApisOf(s, grant) :
    Apply("gcal_eventos", s,
          login_required(s, gcal_eventos_effect(s, grant, api)))

EventViews ==
  {"gcal_crear_evento", "gcal_event_detail", "gcal_event_edit", "gcal_event_delete"}
NeedsLogin(op) == op \in {"gcal_event_detail", "gcal_event_delete"}

gcal_event_view(op, s) ==
  \E grant \in GrantsOf(s) : \E api \in ApisOf(s, grant) :
    Apply(op, s,
          IF NeedsLogin(op)
          THEN login_required(s, event_view_effect(s, grant, api))
          ELSE event_view_effect(s, grant, api))

(***************************************************************************)
(* Calendar: the authorization-code flow.                                  *)
(***************************************************************************)

\* The state nonce of a new authorization URL: a random string, different
\* from every nonce a session holds.
FreshNonces(key) == Nonces \ {session[t][key] : t \in Sessions}

\* An exchange that does not compare the state of the callback URL with
\* the stored one.
fetch_token_unchecked(stored, stateParam, exch) ==
  IF exch = "error" THEN "ExchangeError" ELSE "ok"

\* The outcome of flow.fetch_token for a flow built with the stored state:
\* the state of the callback URL is compared with it before the code is
\* exchanged.  A provider answer whose scope differs from the requested
\* scope is an exchange error.
fetch_token(stored, stateParam, exch) ==
  IF stateParam # stored THEN "MismatchingStateError"
  ELSE IF exch = "error" THEN "ExchangeError"
  ELSE "ok"

\* The provider is asked only when the state matches.
ExchangesOf(stored, stateParam) ==
  IF stored # NoState /\ stateParam = stored THEN Exchanges ELSE {"error"}

\* flow.credentials after an exchange answered exch
flow_credentials(exch, now, scopes) ==
  IssuedCreds(now, IF exch = "no_refresh_token" THEN NoRT ELSE RT, scopes)

\* A start of the flow that does not look for the client configuration.
conectar_effect_unconfigured(s, grant, n) ==
  Effect([session[s] EXCEPT !.google_oauth_state = n,
                            !.google_oauth_redirect_uri = n],
         Row(s), "redirect_to_provider", FALSE)

\* conectar_google_calendar: n is the nonce of the authorization URL.  An
\* exception of the lookup is swallowed.
conectar_effect(s, grant, n) ==
  LET r == _get_valid_creds(s, grant)
      valid == r.exc = "none" /\ r.out # None /\ ~expired(r.out, clock)
      d == [session[s] EXCEPT !.google_creds = r.google_creds]
      popped == [d EXCEPT !.google_oauth_state = NoState,
                          !.google_oauth_redirect_uri = NoState]
  IN  IF valid THEN Effect(d, r.row, "already_connected", r.refresh)
      ELSE IF ~config.cal
      THEN Effect(popped, r.row, "ConfigurationError", r.refresh)
      ELSE Effect([popped EXCEPT !.google_oauth_state = n,
                                 !.google_oauth_redirect_uri = n],
                  r.row, "redirect_to_provider", r.refresh)

conectar_google_calendar(s) ==
  \E grant \in GrantsOf(s), n \in FreshNonces("google_oauth_state") :
    Apply("conectar_google_calendar", s,
          login_required(s, conectar_effect(s, grant, n)))

\* google_callback
google_callback_effect(s, stateParam, exch) ==
  LET state == session[s].google_oauth_state
      redirect_uri == session[s].google_oauth_redirect_uri
      fetched == fetch_token(state, stateParam, exch)
      creds == flow_credentials(exch, clock, SCOPES)
  IN  IF ~config.cal
      THEN Effect(session[s], Row(s), "ConfigurationError", FALSE)
      ELSE IF state = NoState \/ redirect_uri = NoState
      THEN Effect(session[s], Row(s), "SessionError", FALSE)
      ELSE IF fetched # "ok"
      THEN Effect(session[s], Row(s), fetched, FALSE)
      ELSE IF creds.refresh_token = NoRT
      THEN Effect([session[s] EXCEPT !.google_creds = None], Row(s),
                  "ConsentIncomplete", FALSE)
      ELSE Effect([session[s] EXCEPT !.google_creds = to_json(creds)],
                  IF is_authenticated(s) THEN to_json(creds) ELSE None,
                  "connected", FALSE)

google_callback(s) ==
  \E stateParam \in 0..MaxNonce :
  \E exch \in ExchangesOf(session[s].google_oauth_state, stateParam) :
    Apply("google_callback", s, google_callback_effect(s, stateParam, exch))

\* google_disconnect and google_reconnect: _clear_google_session, then
\* _db_clear_user_creds.
disconnect_effect(s, res) ==
  Effect(_clear_google_session(session[s]), None, res, FALSE)

google_disconnect(s) ==
  Apply("google_disconnect", s,
        login_required(s, disconnect_effect(s, "disconnected")))

google_reconnect(s) ==
  Apply("google_reconnect", s,
        login_required(s, disconnect_effect(s, "redirect_to_connect")))

(***************************************************************************)
(* Drive: the application-wide token (accounts/views_drive_oauth.py and    *)
(* core/google_drive.py).  None of these views requires a login.           *)
(***************************************************************************)

\* The effect of a Drive request on the session dictionary and on the
\* token file, and its result.
DriveEffect(sess, file, res, refresh) ==
  [session |-> sess, file |-> file, res |-> res, refresh |-> refresh]

StoreDrive(s, e) ==
  /\ session' = [session EXCEPT ![s] = e.session]
  /\ tokenFile' = e.file
  /\ last' = Done("drive", e.res, e.refresh)
  /\ UNCHANGED <<clock, dbTok, config, caseVars>>

ApplyDrive(op, s, e) == StoreDrive(s, e) /\ UNCHANGED inflight

\* google_drive_connect: n is the nonce of the authorization URL.
google_drive_connect_effect(s, n) ==
  IF ~config.drive
  THEN DriveEffect(session[s], tokenFile, "ConfigurationError", FALSE)
  ELSE DriveEffect([session[s] EXCEPT !.google_drive_oauth_state = n],
                   tokenFile, "redirect_to_provider", FALSE)

google_drive_connect(s) ==
  \E n \in FreshNonces("google_drive_oauth_state") :
    ApplyDrive("google_drive_connect", s, google_drive_connect_effect(s, n))

\* google_drive_callback: fetch_token is not guarded, its exceptions are
\* unhandled; the credentials of a successful exchange are pickled as they
\* are.
google_drive_callback_effect(s, stateParam, exch) ==
  LET state == session[s].google_drive_oauth_state
      fetched == fetch_token(state, stateParam, exch)
      creds == flow_credentials(exch, clock, DRIVE_SCOPES)
  IN  IF state = NoState
      THEN DriveEffect(session[s], tokenFile, "SessionError", FALSE)
      ELSE IF ~config.drive
      THEN DriveEffect(session[s], tokenFile, "ConfigurationError", FALSE)
      ELSE IF fetched # "ok"
      THEN DriveEffect(session[s], tokenFile, "Unhandled_" \o fetched, FALSE)
      ELSE DriveEffect(session[s], creds, "connected", FALSE)

google_drive_callback(s) ==
  \E stateParam \in 0..MaxNonce :
  \E exch \in ExchangesOf(session[s].google_drive_oauth_state, stateParam) :
    ApplyDrive("google_drive_callback", s,
               google_drive_callback_effect(s, stateParam, exch))

\* google_drive_disconnect: the token file is unlinked.
google_drive_disconnect_effect(s) ==
  DriveEffect(session[s], None, "drive_disconnected", FALSE)

google_drive_disconnect(s) ==
  ApplyDrive("google_drive_disconnect", s, google_drive_disconnect_effect(s))

\* "Refresca si es necesario (si hay refresh_token)"
DriveNeedsRefresh(c, now) == expired(c, now) /\ c.refresh_token # NoRT

\* The OAuth branch of _build_creds (google_whoami has the same lines) for
\* the pickled credential c: the credential returned (out), the exception
\* raised, the token file as the call leaves it.
_build_creds(c, grant, now) ==
  IF DriveNeedsRefresh(c, now)
  THEN IF grant # "ok"
       THEN [out |-> None, exc |-> "RefreshError", file |-> c, refresh |-> TRUE]
       ELSE [out |-> refreshed(c, now), exc |-> "none",
             file |-> refreshed(c, now), refresh |-> TRUE]
  ELSE [out |-> c, exc |-> "none", file |-> c, refresh |-> FALSE]

\* A Drive request once the token file exists: the credential goes to the
\* API client, the provider answers api; every exception is unhandled.  The
\* file is written only after a refresh that succeeded.
drive_request_after(s, r, api) ==
      DriveEffect(session[s],
                  IF r.refresh /\ r.exc = "none" THEN r.file ELSE tokenFile,
                  IF r.exc # "none" THEN "Unhandled_" \o r.exc
                  ELSE IF api # "ok" THEN "Unhandled_" \o api
                  ELSE "ok",
                  r.refresh)

drive_request_effect(s, grant, api) ==
  drive_request_after(s, _build_creds(tokenFile, grant, clock), api)

\* google_whoami, and any Drive operation through _svc()
DriveOps == {"google_whoami", "_svc"}

DriveGrants ==
  IF tokenFile # None /\ DriveNeedsRefresh(tokenFile, clock) THEN Grants ELSE {"ok"}
DriveApis(grant) ==
  IF _build_creds(tokenFile, grant, clock).exc = "none" THEN ApiOutcomes ELSE {"ok"}

drive_request(op, s) ==
  \/ /\ tokenFile = None
     /\ ApplyDrive(op, s, DriveEffect(session[s], None, "no_oauth_token", FALSE))
  \/ /\ tokenFile # None
     /\ \E grant \in DriveGrants : \E api \in DriveApis(grant) :
          ApplyDrive(op, s, drive_request_effect(s, grant, api))

(***************************************************************************)
(* The system.  Requests are served one at a time.  Calendar requests read *)
(* and write the calendar keys of the session and the token rows, Drive    *)
(* requests the Drive key of the session and the token file; Spec explores *)
(* the behaviours in which one integration is in use at a time, SpecBoth   *)
(* every interleaving of the two.                                          *)
(***************************************************************************)
CalSessions == {"s1", "s2", "s0"}
DriveSessions == {"s1", "s0"}

CalendarIdle ==
  /\ \A u \in Users : dbTok[u] = None
  /\ \A s \in Sessions :
       /\ session[s].google_creds = None
       /\ session[s].google_oauth_state = NoState
       /\ session[s].google_oauth_redirect_uri = NoState

DriveIdle ==
  /\ tokenFile = None
  /\ \A s \in Sessions : session[s].google_drive_oauth_state = NoState

CalendarRequest ==
  \/ \E s \in CalSessions : gcal_eventos(s)
  \/ \E s \in CalSessions, op \in EventViews : gcal_event_view(op, s)
  \/ \E s \in CalSessions : conectar_google_calendar(s)
  \/ \E s \in CalSessions : google_callback(s)
  \/ \E s \in CalSessions : google_disconnect(s)
  \/ \E s \in CalSessions : google_reconnect(s)

DriveRequest ==
  \/ \E s \in DriveSessions : google_drive_connect(s)
  \/ \E s \in DriveSessions : google_drive_callback(s)
  \/ \E s \in DriveSessions : google_drive_disconnect(s)
  \/ \E s \in DriveSessions, op \in DriveOps : drive_request(op, s)

Next ==
  \/ Tick
  \/ \E s \in CalSessions : DriveIdle /\ gcal_eventos(s)
  \/ \E s \in CalSessions, op \in EventViews :
       DriveIdle /\ gcal_event_view(op, s)
  \/ \E s \in CalSessions : DriveIdle /\ conectar_google_calendar(s)
  \/ \E s \in CalSessions : DriveIdle /\ google_callback(s)
  \/ \E s \in CalSessions : DriveIdle /\ google_disconnect(s)
  \/ \E s \in CalSessions : DriveIdle /\ google_reconnect(s)
  \/ \E s \in DriveSessions : CalendarIdle /\ google_drive_connect(s)
  \/ \E s \in DriveSessions : CalendarIdle /\ google_drive_callback(s)
  \/ \E s \in DriveSessions : CalendarIdle /\ google_drive_disconnect(s)
  \/ \E s \in DriveSessions, op \in DriveOps :
       CalendarIdle /\ drive_request(op, s)

Spec == Init /\ [][Next]_vars

NextBoth ==
  \/ Tick
  \/ CalendarRequest
  \/ DriveRequest

SpecBoth == Init /\ [][NextBoth]_vars

\* Both integrations in use at once from one browser session.
PairSessions == {"s1"}

NextPair ==
  \/ Tick
  \/ \E s \in PairSessions : gcal_eventos(s)
  \/ \E s \in PairSessions, op \in EventViews : gcal_event_view(op, s)
  \/ \E s \in PairSessions : conectar_google_calendar(s)
  \/ \E s \in PairSessions : google_callback(s)
  \/ \E s \in PairSessions : google_disconnect(s)
  \/ \E s \in PairSessions : google_reconnect(s)
  \/ \E s \in PairSessions : google_drive_connect(s)
  \/ \E s \in PairSessions : google_drive_callback(s)
  \/ \E s \in PairSessions : google_drive_disconnect(s)
  \/ \E s \in PairSessions, op \in DriveOps : drive_request(op, s)

SpecPair == Init /\ [][NextPair]_vars

(***************************************************************************)
(* Concurrent requests.  gunicorn runs several sync workers; a request is  *)
(* suspended while the provider's token endpoint answers the refresh       *)
(* exchange, and other workers serve requests meanwhile.  A suspended      *)
(* request holds the credential it loaded and the answer that is on its    *)
(* way: the provider's decision and the time at which it took it.          *)
(***************************************************************************)
Suspended(of, s, ld, grant, at) ==
  [of |-> of, s |-> s, ld |-> ld, grant |-> grant, at |-> at]

\* An event view in session s loads an expired credential with a refresh
\* token and calls creds.refresh.
BeginCalendarRefresh(w, s) ==
  /\ inflight[w] = None
  /\ WillRefresh(s)
  /\ \E grant \in Grants :
       inflight' = [inflight EXCEPT ![w] =
         Suspended("calendar", s, LoadCreds(s), grant, clock)]
  /\ UNCHANGED <<clock, session, dbTok, tokenFile, config, last, caseVars>>

\* creds.refresh returns or raises: the view persists what it holds and
\* completes.
FinishCalendarRefresh(w) ==
  /\ inflight[w] # None
  /\ inflight[w].of = "calendar"
  /\ LET q == inflight[w]
         r == EnsureFresh(q.s, q.ld, q.grant, q.at)
     IN  \E api \in (IF r.out # None THEN ApiOutcomes ELSE {"ok"}) :
           Store(q.s, event_view_after(q.s, r, api))
  /\ inflight' = [inflight EXCEPT ![w] = None]

\* A Drive request unpickles an expired credential with a refresh token and
\* calls creds.refresh.
BeginDriveRefresh(w, s) ==
  /\ inflight[w] = None
  /\ tokenFile # None
  /\ DriveNeedsRefresh(tokenFile, clock)
  /\ \E grant \in Grants :
       inflight' = [inflight EXCEPT ![w] =
         Suspended("drive", s, tokenFile, grant, clock)]
  /\ UNCHANGED <<clock, session, dbTok, tokenFile, config, last, caseVars>>

FinishDriveRefresh(w) ==
  /\ inflight[w] # None
  /\ inflight[w].of = "drive"
  /\ LET q == inflight[w]
         r == _build_creds(q.ld, q.grant, q.at)
     IN  \E api \in (IF r.exc = "none" THEN ApiOutcomes ELSE {"ok"}) :
           StoreDrive(q.s, drive_request_after(q.s, r, api))
  /\ inflight' = [inflight EXCEPT ![w] = None]

\* The sessions whose requests are interleaved: two browsers of one user.
ConcSessions == {"s1", "s2"}

\* The calendar requests of one browser are taken by one worker: the
\* requests that overlap are those of two browsers of the user.
Serves(w, s) == (w = "w1") = (s = "s1")

NextConc ==
  \/ Tick
  \/ \E s \in ConcSessions : DriveIdle /\ conectar_google_calendar(s)
  \/ \E s \in ConcSessions : DriveIdle /\ google_callback(s)
  \/ \E w \in Workers, s \in ConcSessions :
       DriveIdle /\ Serves(w, s) /\ BeginCalendarRefresh(w, s)
  \/ \E w \in Workers : FinishCalendarRefresh(w)
  \/ \E s \in DriveSessions : CalendarIdle /\ google_drive_connect(s)
  \/ \E s \in DriveSessions : CalendarIdle /\ google_drive_callback(s)
  \/ \E w \in Workers, s \in DriveSessions :
       CalendarIdle /\ BeginDriveRefresh(w, s)
  \/ \E w \in Workers : FinishDriveRefresh(w)

SpecConc == Init /\ [][NextConc]_vars
(***************************************************************************)
(* The scope check on its own.  Through the lookup the check only ever     *)
(* sees SCOPES, because the stored record is parsed with SCOPES as the     *)
(* scopes of the credential; here it is applied to credentials carrying    *)
(* every set of scope strings.                                             *)
(***************************************************************************)
ScopeSets == SUBSET ScopeStrings

InitScopes ==
  /\ clock = 0
  /\ \E g \in [{s \in Sessions : is_authenticated(s)} -> ScopeSets] :
       session = [s \in Sessions |->
                    IF is_authenticated(s)
                    THEN [EmptySession EXCEPT !.google_creds =
                            to_json(IssuedCreds(0, RT, g[s]))]
                    ELSE EmptySession]
  /\ dbTok = [u \in Users |-> None]
  /\ tokenFile = None
  /\ config \in Configs
  /\ inflight = [w \in Workers |-> None]
  /\ last = Done("none", "none", FALSE)
  /\ InitCases

\* Lines 137-142 of _get_valid_creds applied to the credential of session s.
scope_check(s) ==
  /\ session[s].google_creds # None
  /\ last' = Done("scope_check",
                  IF has_cal_scope(session[s].google_creds.scopes)
                  THEN "accepted" ELSE "rejected",
                  FALSE)
  /\ UNCHANGED <<clock, session, dbTok, tokenFile, config, inflight, caseVars>>

NextScopes == \E s \in Sessions : scope_check(s)

SpecScopes == InitScopes /\ [][NextScopes]_vars

(***************************************************************************)
(* The calendar views over a store that the application did not fill       *)
(* itself: the row of the user and the session copy hold any record, among *)
(* them records that Credentials.from_authorized_user_info refuses (the    *)
(* refresh_token field is missing).                                        *)
(***************************************************************************)
StoredRecords ==
  {to_json(Creds(0, rt, exp, SCOPES)) : rt \in {RT, NoRT}, exp \in 0..TokenTTL}

InitStored ==
  /\ clock = 0
  /\ \E copy \in StoredRecords \cup {None} :
       session = [s \in Sessions |->
                    IF s = "s1"
                    THEN [EmptySession EXCEPT !.google_creds = copy]
                    ELSE EmptySession]
  /\ dbTok \in [Users -> StoredRecords \cup {None}]
  /\ tokenFile = None
  /\ config \in Configs
  /\ inflight = [w \in Workers |-> None]
  /\ last = Done("none", "none", FALSE)
  /\ InitCases

NextStored ==
  \/ Tick
  \/ \E s \in CalSessions : gcal_eventos(s)
  \/ \E s \in CalSessions, op \in EventViews : gcal_event_view(op, s)
  \/ \E s \in CalSessions : google_disconnect(s)

SpecStored == InitStored /\ [][NextStored]_vars

(***************************************************************************)
(* Drive as core/google_drive.py uses it.  D is the pair of the items and  *)
(* of the next id; e is the environment.                                   *)
(***************************************************************************)
\* _sa_file_path(): the first place that holds a service account file
NoPath == "None"
_sa_file_path(e) ==
  IF e.gac THEN "GOOGLE_APPLICATION_CREDENTIALS"
  ELSE IF e.keys THEN "keys/service_account.json"
  ELSE IF e.sa_file THEN "GOOGLE_SERVICE_ACCOUNT_FILE"
  ELSE NoPath

_svc_service_account_first(file, e, grant, now) ==
  IF e.sa_json \/ _sa_file_path(e) # NoPath
  THEN [using |-> IF e.sa_json THEN "service_account_info"
                  ELSE "service_account_file",
        exc |-> "none", file |-> file, refresh |-> FALSE]
  ELSE IF file # None
  THEN [using |-> "oauth", exc |-> "none", file |-> file, refresh |-> FALSE]
  ELSE [using |-> "nothing", exc |-> "RuntimeError", file |-> file,
        refresh |-> FALSE]

\* The whole of _build_creds, as _svc() calls it: the token file first,
\* the inline service account next, the service account file last.  using
\* names the credential handed to the API client.
_svc(file, e, grant, now) ==
  IF file # None
  THEN LET r == _build_creds(file, grant, now)
       IN  [using |-> IF r.exc = "none" THEN "oauth" ELSE "nothing",
            exc |-> r.exc, file |-> r.file, refresh |-> r.refresh]
  ELSE IF e.sa_json
  THEN [using |-> "service_account_info", exc |-> "none", file |-> file,
        refresh |-> FALSE]
  ELSE IF _sa_file_path(e) # NoPath
  THEN [using |-> "service_account_file", exc |-> "none", file |-> file,
        refresh |-> FALSE]
  ELSE [using |-> "nothing", exc |-> "RuntimeError", file |-> file,
        refresh |-> FALSE]

\* _root_container_id()
_root_container_id(e) == IF e.root THEN RootContainerId ELSE NoId

\* effective_parent = parent_id or (_root_container_id() or None)
effective_parent(e, parent_id) ==
  IF parent_id # NoId THEN parent_id ELSE _root_container_id(e)

\* files().list of ensure_folder: the folders named name that are not
\* trashed, under the effective parent when there is one.
FoldersNamed(items, name, parent) ==
  {i \in items : /\ i.mimeType = Folder
                 /\ i.name = name
                 /\ (parent = NoId \/ i.parent = parent)}

\* found[0]: Drive lists the older item first.
First(found) == CHOOSE i \in found : \A j \in found : i.id <= j.id

\* files().create: an item without parents lands in the root of the
\* identity.
files_create(D, name, parent, mime) ==
  [items |-> D.items \cup
       {Item(D.next, name, IF parent = NoId THEN MyDriveId ELSE parent, mime)},
   next |-> D.next + 1]

\* ensure_folder once files().list has answered found.
ensure_folder_after(D, e, name, parent_id, found) ==
  IF found # {}
  THEN [id |-> First(found).id, drive |-> D]
  ELSE [id |-> D.next,
        drive |-> files_create(D, name, effective_parent(e, parent_id), Folder)]

ensure_folder(D, e, name, parent_id) ==
  ensure_folder_after(D, e, name, parent_id,
      FoldersNamed(D.items, name, effective_parent(e, parent_id)))

(***************************************************************************)
(* cases/permissions.py                                                    *)
(***************************************************************************)
is_admin(u) == is_superuser(u)

puede_ver_caso(u, caso) ==
  \/ is_admin(u)
  \/ casos[caso].abogado_responsable = u
  \/ \E a \in AccesoCaso : a.caso = caso /\ a.abogado = u

puede_subir_caso(u, caso) ==
  \/ is_admin(u)
  \/ casos[caso].abogado_responsable = u
  \/ \E a \in AccesoCaso : a.caso = caso /\ a.abogado = u /\ a.puede_editar

(***************************************************************************)
(* A request on the case files works on K: the Drive items and the next    *)
(* id, the Caso and ArchivoCaso rows, the number of bitacora events,       *)
(* whether Drive was asked for credentials, the exception that ended the   *)
(* work, the number of Caso.save calls.  The tables are in autocommit      *)
(* mode: what was written before an exception stays written.               *)
(*                                                                         *)
(* drv is what the request gets from Drive: "ok", or the exception of      *)
(* _svc() ("RuntimeError" without credentials, "RefreshError"), or the     *)
(* "HttpError" of its first API call.                                      *)
(***************************************************************************)
CaseState ==
  [items |-> drive, next |-> driveNext, casos |-> casos,
   archivos |-> archivos, eventos |-> eventos,
   called |-> FALSE, exc |-> "none", saves |-> 0]

DriveOf(K) == [items |-> K.items, next |-> K.next]
WithDrive(K, D) ==
  [K EXCEPT !.items = D.items, !.next = D.next, !.called = TRUE]
Raise(K, exc) == [K EXCEPT !.exc = exc]
DriveRaises(K, drv) == Raise([K EXCEPT !.called = TRUE], drv)
CredsErrors == {"RuntimeError", "RefreshError"}
DriveOutcomes == {"ok", "HttpError"}

\* log_evento: one more ArchivoEvento row
log_evento(K) == [K EXCEPT !.eventos = @ + 1]

\* ArchivoCaso.objects.update_or_create(drive_file_id=..., defaults=...)
update_or_create(rows, id, c, nombre, mime) ==
  {r \in rows : r.drive_file_id # id} \cup {ArchivoCaso(id, c, nombre, mime)}

(***************************************************************************)
(* cases/signals.py and Caso.save.  inst is the instance the caller holds, *)
(* fields the update_fields of the call, d the depth of the save.  Python  *)
(* ends a recursion that goes deeper than its limit with RecursionError.   *)
(***************************************************************************)
\* "<codigo> - <titulo>": the title of a case is not empty
_case_folder_name(inst) == inst.codigo_caso \o " - titulo"

\* not instance.drive_folder_id
needs_folder(inst) == inst.drive_folder_id = NoId

RECURSIVE Caso_save(_, _, _, _, _, _)

crear_o_actualizar_carpeta_caso_resaving(K, drv, c, inst, d) ==
  IF drv # "ok"
  THEN DriveRaises(K, drv)
  ELSE LET root_clientes == ensure_folder(DriveOf(K), env, "Clientes", NoId)
           carpeta_cliente ==
             ensure_folder(root_clientes.drive, env, ClienteName,
                           root_clientes.id)
           carpeta_caso ==
             ensure_folder(carpeta_cliente.drive, env,
                           _case_folder_name(inst), carpeta_cliente.id)
       IN  Caso_save(WithDrive(K, carpeta_caso.drive), drv, c,
                     [inst EXCEPT !.drive_folder_id = carpeta_caso.id],
                     {"drive_folder_id"}, d + 1)

crear_o_actualizar_carpeta_caso(K, drv, c, inst, d) ==
  IF drv # "ok"
  THEN DriveRaises(K, drv)
  ELSE LET root_clientes == ensure_folder(DriveOf(K), env, "Clientes", NoId)
           carpeta_cliente ==
             ensure_folder(root_clientes.drive, env, ClienteName,
                           root_clientes.id)
       IN  IF needs_folder(inst)
           THEN LET carpeta_caso ==
                      ensure_folder(carpeta_cliente.drive, env,
                                    _case_folder_name(inst), carpeta_cliente.id)
                IN  IF inst.drive_folder_id # carpeta_caso.id
                    THEN Caso_save(WithDrive(K, carpeta_caso.drive), drv, c,
                                   [inst EXCEPT !.drive_folder_id = carpeta_caso.id],
                                   {"drive_folder_id"}, d + 1)
                    ELSE WithDrive(K, carpeta_caso.drive)
           ELSE WithDrive(K, carpeta_cliente.drive)

\* Caso.save(update_fields=fields): the row takes the named fields of the
\* instance, then post_save runs the handler.
Caso_save(K, drv, c, inst, fields, d) ==
  IF d > MaxSaveDepth
  THEN Raise(K, "RecursionError")
  ELSE LET row == [f \in DOMAIN K.casos[c] |->
                     IF f \in fields THEN inst[f] ELSE K.casos[c][f]]
       IN  crear_o_actualizar_carpeta_caso(
             [K EXCEPT !.casos[c] = row, !.saves = @ + 1], drv, c, inst, d)

(***************************************************************************)
(* The views of cases/views_archivos.py and cases/views.py, as operators   *)
(* from K to the K they leave, with the response in res.  An exception     *)
(* that no view catches is the response "Unhandled_<exception>".           *)
(***************************************************************************)
Respond(K, res) ==
  [res |-> IF K.exc # "none" THEN "Unhandled_" \o K.exc ELSE res] @@ K

\* LoginRequiredMixin.dispatch
LoginRequiredMixin(u, k) ==
  IF u = Anon THEN Respond(CaseState, "redirect_to_login") ELSE k

\* list_files(parent_id, page_size): Drive answers with one page, and the
\* code asks for no other.  The page holds page_size items (100 in the
\* source; the model scales the page with the folder).
page_size == 1
Children(items, parent_id) ==
  {i \in items : parent_id # NoId /\ i.parent = parent_id}
list_files(items, parent_id) ==
  LET all == Children(items, parent_id)
  IN  IF Cardinality(all) <= page_size
      THEN {all}
      ELSE {pg \in SUBSET all : Cardinality(pg) = page_size}

\* Lines 126-127: /Clientes/<cliente>/
ClientFolder(D) ==
  LET root == ensure_folder(D, env, "Clientes", NoId)
  IN  ensure_folder(root.drive, env, ClienteName, root.id)

\* The answer to the files().list of line 128
FoundCaseFolder(D, inst) ==
  FoldersNamed(ClientFolder(D).drive.items, inst.codigo_caso,
               ClientFolder(D).id)

\* Lines 124-129 of ListaArchivosCasoView.get; found is the answer to the
\* files().list of line 128.
EnsureCaseFolder(K, drv, c, inst, found) ==
  IF drv # "ok"
  THEN DriveRaises(K, drv)
  ELSE LET cliente == ClientFolder(DriveOf(K))
           carpeta == ensure_folder_after(cliente.drive, env, inst.codigo_caso,
                                          cliente.id, found)
       IN  Caso_save(WithDrive(K, carpeta.drive), drv, c,
                     [inst EXCEPT !.drive_folder_id = carpeta.id],
                     {"drive_folder_id"}, 1)

\* Lines 134-151: the rows of the page are written, the other rows of the
\* case are deleted.
sync_archivos(K, drv, c, items) ==
  IF drv # "ok"
  THEN DriveRaises(K, drv)
  ELSE LET current_ids == {f.id : f \in items}
           rows == {r \in K.archivos : r.drive_file_id \notin current_ids}
                     \cup {ArchivoCaso(f.id, c, f.name, f.mimeType) : f \in items}
       IN  [K EXCEPT !.called = TRUE,
                     !.archivos = {r \in rows : r.caso # c
                                      \/ r.drive_file_id \in current_ids}]

\* ListaArchivosCasoView.get for the instance inst of case c
ListaArchivosCasoView_get(K, u, c, inst, do_sync, drv, found, items) ==
  IF ~puede_ver_caso(u, c)
  THEN Respond(K, "403")
  ELSE LET K1 == IF inst.drive_folder_id = NoId
                 THEN EnsureCaseFolder(K, drv, c, inst, found)
                 ELSE K
           K2 == IF K1.exc = "none" /\ do_sync
                 THEN sync_archivos(K1, drv, c, items)
                 ELSE K1
       IN  Respond(K2, "200")

\* upload_file: the guard of lines 208-212
no_parent_never(e, parent_id) == FALSE

no_parent(e, parent_id) == effective_parent(e, parent_id) = NoId

upload_file(K, drv, filename, parent_id, mime) ==
  IF drv \in CredsErrors
  THEN DriveRaises(K, drv)
  ELSE IF no_parent(env, parent_id)
  THEN Raise([K EXCEPT !.called = TRUE], "RuntimeError_NoParent")
  ELSE IF drv # "ok"
  THEN DriveRaises(K, drv)
  ELSE WithDrive(K, files_create(DriveOf(K), filename,
                                 effective_parent(env, parent_id), mime))

\* SubirArchivoCasoView.post
SubirArchivoCasoView_post(K, u, c, has_file, drv) ==
  IF ~puede_subir_caso(u, c)
  THEN Respond(K, "403")
  ELSE IF ~has_file
  THEN Respond(K, "400")
  ELSE LET up == upload_file(K, drv, "a.docx", K.casos[c].drive_folder_id, Docx)
       IN  IF up.exc # "none"
           THEN Respond(up, "500")
           ELSE Respond(log_evento(
                  [up EXCEPT !.archivos =
                      update_or_create(@, K.next, c, "a.docx", Docx)]), "302")

\* get_object_or_404(ArchivoCaso, drive_file_id=file_id)
RowsOf(K, file_id) == {r \in K.archivos : r.drive_file_id = file_id}
TheRow(K, file_id) == CHOOSE r \in RowsOf(K, file_id) : TRUE

\* _forbidden is (request, caso, motivo); the three file views call it
\* with the message alone.
_forbidden_with_message_only(K) == Respond(Raise(K, "TypeError"), "403")

\* VerArchivoCasoView.get
VerArchivoCasoView_get(K, u, file_id) ==
  IF RowsOf(K, file_id) = {}
  THEN Respond(K, "404")
  ELSE IF ~puede_ver_caso(u, TheRow(K, file_id).caso)
  THEN _forbidden_with_message_only(K)
  ELSE Respond(log_evento(K), "200")

\* DescargarArchivoCasoView.get: a failure of the two lines in the try is
\* Http404.
DescargarArchivoCasoView_get(K, u, file_id, drv) ==
  IF RowsOf(K, file_id) = {}
  THEN Respond(K, "404")
  ELSE IF ~puede_ver_caso(u, TheRow(K, file_id).caso)
  THEN _forbidden_with_message_only(K)
  ELSE IF drv \in CredsErrors
  THEN Respond(DriveRaises(K, drv), "500")
  ELSE IF drv # "ok" \/ \A i \in K.items : i.id # file_id
  THEN Respond([K EXCEPT !.called = TRUE], "404")
  ELSE Respond(log_evento([K EXCEPT !.called = TRUE]), "200")

\* mime.startswith("application/vnd.google-apps.")
IsGoogleType(mime) == mime \in {Folder, GoogleDoc}

\* os.path.splitext and EXT_TO_GOOGLE.get(ext): "" is the absent target
splitext(nombre) ==
  IF nombre = "a.docx" THEN <<"a", ".docx">> ELSE <<nombre, "">>
EXT_TO_GOOGLE(ext) == IF ext = ".docx" THEN GoogleDoc ELSE ""
editable_name(nombre) == splitext(nombre)[1] \o " (Editable)"

\* EditarArchivoCasoView.get.  Drive refuses to copy a file it does not
\* hold, and a copy whose parents hold no id; the search of lines 289-306
\* swallows its exception.
EditarArchivoCasoView_get(K, u, file_id, drv) ==
  IF drv \in CredsErrors
  THEN Respond(DriveRaises(K, drv), "500")
  ELSE IF RowsOf(K, file_id) = {}
  THEN Respond([K EXCEPT !.called = TRUE], "404")
  ELSE
    LET K0 == [K EXCEPT !.called = TRUE]
        archivo == TheRow(K, file_id)
        c == archivo.caso
        target_mime == EXT_TO_GOOGLE(splitext(archivo.nombre)[2])
        name == editable_name(archivo.nombre)
        existente == {r \in K.archivos : /\ r.caso = c
                                         /\ r.nombre = name
                                         /\ IsGoogleType(r.tipo_mime)}
        found == IF drv # "ok" THEN {}
                 ELSE {i \in Children(K.items, K.casos[c].drive_folder_id) :
                         i.name = name /\ IsGoogleType(i.mimeType)}
    IN  IF ~puede_ver_caso(u, c)
        THEN _forbidden_with_message_only(K0)
        ELSE IF IsGoogleType(archivo.tipo_mime)
        THEN Respond(log_evento(K0), "302")
        ELSE IF target_mime = ""
        THEN Respond(log_evento(K0), "302")
        ELSE IF existente # {}
        THEN Respond(log_evento(K0), "302")
        ELSE IF found # {}
        THEN Respond(log_evento(
               [K0 EXCEPT !.archivos =
                   update_or_create(@, First(found).id, c, First(found).name,
                                    First(found).mimeType)]), "302")
        ELSE IF \/ drv # "ok"
                \/ K.casos[c].drive_folder_id = NoId
                \/ \A i \in K.items : i.id # file_id
        THEN Respond(DriveRaises(K, "HttpError"), "500")
        ELSE Respond(log_evento(
               [WithDrive(K, files_create(DriveOf(K), name,
                                          K.casos[c].drive_folder_id, target_mime))
                  EXCEPT !.archivos =
                    update_or_create(@, K.next, c, name, target_mime)]), "302")

\* CasoDetailView: a DetailView of Caso, without mixin or decorator
CasoDetailView_get(K, u, pk) == Respond(K, "200")

\* CambiarEstadoCasoView.post
validos == ESTADOS
CambiarEstadoCasoView_post(K, u, c, nuevo_estado, drv) ==
  IF ~puede_subir_caso(u, c)
  THEN Respond(K, "403")
  ELSE IF nuevo_estado \notin validos
  THEN Respond(K, "302_invalido")
  ELSE LET saved == Caso_save(K, drv, c,
                              [K.casos[c] EXCEPT !.estado = nuevo_estado],
                              {"estado"}, 1)
       IN  IF saved.exc # "none"
           THEN Respond(saved, "500")
           ELSE Respond(log_evento(saved), "302")

(***************************************************************************)
(* The case requests as actions.  A request is served whole; the           *)
(* credential comes from _svc(), Drive answers the first call with api.    *)
(***************************************************************************)
DrvOf(creds, api) == IF creds.exc # "none" THEN creds.exc ELSE api

StoreCaseState(view, creds, k) ==
  /\ k.next <= FirstId + MaxItems
  /\ k.eventos <= MaxEventos
  /\ drive' = k.items
  /\ driveNext' = k.next
  /\ casos' = k.casos
  /\ archivos' = k.archivos
  /\ eventos' = k.eventos
  /\ tokenFile' = IF k.called THEN creds.file ELSE tokenFile
  /\ last' = Done(view, k.res, k.called /\ creds.refresh)
  /\ UNCHANGED <<clock, session, dbTok, config, env>>

StoreCase(view, creds, k) ==
  StoreCaseState(view, creds, k) /\ UNCHANGED inflight

ListaArchivosCasoView(u, c) ==
  \E do_sync \in BOOLEAN, grant \in DriveGrants, api \in DriveOutcomes :
    LET creds == _svc(tokenFile, env, grant, clock)
        drv == DrvOf(creds, api)
        found == FoundCaseFolder(DriveOf(CaseState), casos[c])
        listed == ListaArchivosCasoView_get(CaseState, u, c, casos[c], FALSE,
                                            drv, found, {})
    IN  \E items \in list_files(listed.items, listed.casos[c].drive_folder_id) :
          StoreCase("ListaArchivosCasoView", creds,
            LoginRequiredMixin(u,
              ListaArchivosCasoView_get(CaseState, u, c, casos[c], do_sync,
                                        drv, found, items)))

SubirArchivoCasoView(u, c) ==
  \E has_file \in BOOLEAN, grant \in DriveGrants, api \in DriveOutcomes :
    LET creds == _svc(tokenFile, env, grant, clock)
    IN  StoreCase("SubirArchivoCasoView", creds,
          LoginRequiredMixin(u,
            SubirArchivoCasoView_post(CaseState, u, c, has_file,
                                      DrvOf(creds, api))))

VerArchivoCasoView(u, file_id) ==
  StoreCase("VerArchivoCasoView", _svc(tokenFile, env, "ok", clock),
    LoginRequiredMixin(u, VerArchivoCasoView_get(CaseState, u, file_id)))

DescargarArchivoCasoView(u, file_id) ==
  \E grant \in DriveGrants, api \in DriveOutcomes :
    LET creds == _svc(tokenFile, env, grant, clock)
    IN  StoreCase("DescargarArchivoCasoView", creds,
          LoginRequiredMixin(u,
            DescargarArchivoCasoView_get(CaseState, u, file_id,
                                         DrvOf(creds, api))))

EditarArchivoCasoView(u, file_id) ==
  \E grant \in DriveGrants, api \in DriveOutcomes :
    LET creds == _svc(tokenFile, env, grant, clock)
    IN  StoreCase("EditarArchivoCasoView", creds,
          LoginRequiredMixin(u,
            EditarArchivoCasoView_get(CaseState, u, file_id,
                                      DrvOf(creds, api))))

CasoDetailView(u, pk) ==
  StoreCase("CasoDetailView", _svc(tokenFile, env, "ok", clock),
            CasoDetailView_get(CaseState, u, pk))

PostedEstados == ESTADOS \cup {"", "ARCHIVADO"}

CambiarEstadoCasoView(u, c) ==
  \E nuevo_estado \in PostedEstados, grant \in DriveGrants,
     api \in DriveOutcomes :
    LET creds == _svc(tokenFile, env, grant, clock)
    IN  StoreCase("CambiarEstadoCasoView", creds,
          LoginRequiredMixin(u,
            CambiarEstadoCasoView_post(CaseState, u, c, nuevo_estado,
                                       DrvOf(creds, api))))

\* The owner of the Drive account trashes a file of a case folder.
TrashFile(id) ==
  /\ \E i \in drive : i.id = id /\ i.mimeType # Folder
  /\ drive' = {i \in drive : i.id # id}
  /\ last' = Done("Drive", "trashed", FALSE)
  /\ UNCHANGED <<clock, session, dbTok, tokenFile, config, inflight, env,
                 driveNext, casos, archivos, eventos>>

(***************************************************************************)
(* The case files of a deployment that reaches Drive through the inline    *)
(* service account, or has no Drive credential at all, with or without a   *)
(* root container.  Requests are served one at a time.                     *)
(***************************************************************************)
InitCaseFiles ==
  /\ clock = 0
  /\ session = [s \in Sessions |-> EmptySession]
  /\ dbTok = [u \in Users |-> None]
  /\ tokenFile = None
  /\ config \in {c \in Configs : c.drive}
  /\ inflight = [w \in Workers |-> None]
  /\ last = Done("none", "none", FALSE)
  /\ env \in {e \in Envs : ~e.keys /\ ~e.sa_file /\ e.gac = e.sa_json}
  /\ drive = {}
  /\ driveNext = FirstId
  /\ casos = [c \in CasoIds |-> NewCaso("responsable")]
  /\ archivos = {}
  /\ eventos = 0

NextCases ==
  \/ \E u \in Requesters, c \in CasoIds : ListaArchivosCasoView(u, c)
  \/ \E u \in Requesters, c \in CasoIds : SubirArchivoCasoView(u, c)
  \/ \E u \in Requesters, f \in ItemIds : VerArchivoCasoView(u, f)
  \/ \E u \in Requesters, f \in ItemIds : DescargarArchivoCasoView(u, f)
  \/ \E u \in Requesters, f \in ItemIds : EditarArchivoCasoView(u, f)
  \/ \E u \in Requesters, pk \in CasoIds : CasoDetailView(u, pk)
  \/ \E u \in Requesters, c \in CasoIds : CambiarEstadoCasoView(u, c)
  \/ \E f \in ItemIds : TrashFile(f)

SpecCases == InitCaseFiles /\ [][NextCases]_vars

(***************************************************************************)
(* The same deployments when only the requests that save a case or write   *)
(* to Drive on its behalf are made: the file list, which creates the case  *)
(* folder, the upload and the change of estado.                            *)
(***************************************************************************)
NextUploads ==
  \/ \E u \in Requesters, c \in CasoIds : ListaArchivosCasoView(u, c)
  \/ \E u \in Requesters, c \in CasoIds : SubirArchivoCasoView(u, c)
  \/ \E u \in Requesters, c \in CasoIds : CambiarEstadoCasoView(u, c)

SpecUploads == InitCaseFiles /\ [][NextUploads]_vars

(***************************************************************************)
(* Two gunicorn workers serve file-list requests for a case that has no    *)
(* folder.  A worker is preempted inside ensure_folder(codigo, cliente),   *)
(* between the answer of files().list and files().create; what it holds    *)
(* then is the instance it loaded and the answer it got.                   *)
(***************************************************************************)
SuspendedList(u, c, inst, found, do_sync) ==
  [of |-> "ensure_folder", u |-> u, c |-> c, inst |-> inst, found |-> found,
   do_sync |-> do_sync]

BeginEnsureFolder(w, u, c) ==
  /\ inflight[w] = None
  /\ u # Anon
  /\ puede_ver_caso(u, c)
  /\ casos[c].drive_folder_id = NoId
  /\ _svc(tokenFile, env, "ok", clock).exc = "none"
  /\ LET cliente == ClientFolder(DriveOf(CaseState))
     IN  /\ cliente.drive.next <= FirstId + MaxItems
         /\ drive' = cliente.drive.items
         /\ driveNext' = cliente.drive.next
         /\ \E do_sync \in BOOLEAN :
              inflight' = [inflight EXCEPT ![w] =
                SuspendedList(u, c, casos[c],
                              FoundCaseFolder(DriveOf(CaseState), casos[c]),
                              do_sync)]
  /\ UNCHANGED <<clock, session, dbTok, tokenFile, config, last, env, casos,
                 archivos, eventos>>

FinishEnsureFolder(w) ==
  /\ inflight[w] # None
  /\ inflight[w].of = "ensure_folder"
  /\ LET q == inflight[w]
         creds == _svc(tokenFile, env, "ok", clock)
         listed == ListaArchivosCasoView_get(CaseState, q.u, q.c, q.inst,
                                             FALSE, "ok", q.found, {})
     IN  \E items \in list_files(listed.items,
                                 listed.casos[q.c].drive_folder_id) :
           StoreCaseState("ListaArchivosCasoView", creds,
             ListaArchivosCasoView_get(CaseState, q.u, q.c, q.inst, q.do_sync,
                                       "ok", q.found, items))
  /\ inflight' = [inflight EXCEPT ![w] = None]

\* The requesters of the interleaved requests are the responsible lawyer
\* and a lawyer who may only read.
NextFolders ==
  \/ \E w \in Workers, u \in {"responsable", "lector"}, c \in CasoIds :
       BeginEnsureFolder(w, u, c)
  \/ \E w \in Workers : FinishEnsureFolder(w)
  \/ \E u \in {"responsable", "lector"}, c \in CasoIds :
       CambiarEstadoCasoView(u, c)

SpecFolders == InitCaseFiles /\ [][NextFolders]_vars

(***************************************************************************)
(* _svc() in every environment and over every token file: absent, fresh    *)
(* or expired, with or without refresh token.                              *)
(***************************************************************************)
InitCreds ==
  /\ clock = 0
  /\ session = [s \in Sessions |-> EmptySession]
  /\ dbTok = [u \in Users |-> None]
  /\ tokenFile \in {None} \cup {Creds(0, rt, exp, DRIVE_SCOPES) :
                                  rt \in {RT, NoRT}, exp \in 1..TokenTTL + 1}
  /\ config \in {c \in Configs : c.drive}
  /\ inflight = [w \in Workers |-> None]
  /\ last = Done("none", "none", FALSE)
  /\ env \in Envs
  /\ drive = {}
  /\ driveNext = FirstId
  /\ casos = [c \in CasoIds |-> NewCaso("responsable")]
  /\ archivos = {}
  /\ eventos = 0

\* A Drive operation asks _svc() for its client: the credential goes to
\* the client, or the exception ends the operation before any Drive call.
svc_call ==
  \E grant \in DriveGrants :
    LET r == _svc(tokenFile, env, grant, clock)
    IN  /\ tokenFile' = r.file
        /\ last' = Done("_svc",
                        IF r.exc # "none" THEN "Unhandled_" \o r.exc
                        ELSE r.using,
                        r.refresh)
        /\ UNCHANGED <<clock, session, dbTok, config, inflight, caseVars>>

NextCreds ==
  \/ Tick
  \/ svc_call

SpecCreds == InitCreds /\ [][NextCreds]_vars

(***************************************************************************)
(* Properties of the credential lifecycle.                                 *)
(***************************************************************************)
Authenticated == {s \in Sessions : is_authenticated(s)}

\* C1: a stored credential that is expired and has no refresh token makes
\* the lookup fail without refreshing; it is never handed to the API client,
\* neither by the calendar lookup nor by the Drive one.
C1_ExpiredWithoutRefreshTokenIsAbsent ==
  /\ \A s \in Sessions, grant \in Grants :
       LET ld == LoadCreds(s)
           r  == _get_valid_creds(s, grant)
       IN  (ld.creds # None /\ expired(ld.creds, clock)
              /\ ld.creds.refresh_token = NoRT)
             => (r.out = None /\ ~r.refresh)
  /\ \A grant \in Grants :
       (tokenFile # None /\ expired(tokenFile, clock)
          /\ tokenFile.refresh_token = NoRT)
         => LET r == _build_creds(tokenFile, grant, clock)
            IN  r.out = None /\ ~r.refresh

\* C2: a stored credential that is expired and has a refresh token comes
\* out of the lookup either renewed, with its expiry in the future, or as a
\* refresh failure; the expired credential itself is never returned.
C2_ExpiredWithRefreshTokenIsRenewedOrFails ==
  /\ \A s \in Sessions, grant \in Grants :
       LET ld == LoadCreds(s)
           r  == _get_valid_creds(s, grant)
       IN  (ld.creds # None /\ expired(ld.creds, clock)
              /\ ld.creds.refresh_token # NoRT)
             => \/ r.exc = "RefreshError"
                \/ r.out # None /\ ~expired(r.out, clock) /\ r.out # ld.creds
  /\ \A grant \in Grants :
       (tokenFile # None /\ expired(tokenFile, clock)
          /\ tokenFile.refresh_token # NoRT)
         => LET r == _build_creds(tokenFile, grant, clock)
            IN  \/ r.exc = "RefreshError"
                \/ r.out # None /\ ~expired(r.out, clock) /\ r.out # tokenFile

\* A calendar request found its credential expired, refreshed it and went
\* on to a successful API call.
C2_Witness ==
  last.of = "calendar" /\ last.refresh /\ last.res = "ok"

\* C3: a successful callback removes the OAuth session (the state nonce and
\* the redirect URI) of the browser session it ran in, in the same request.
C3_SessionIsSingleUse ==
  [][ /\ (last'.of = "calendar" /\ last'.res = "connected")
           => \E s \in Sessions :
                /\ session[s].google_oauth_state # NoState
                /\ session'[s].google_oauth_state = NoState
                /\ session'[s].google_oauth_redirect_uri = NoState
      /\ (last'.of = "drive" /\ last'.res = "connected")
           => \E s \in Sessions :
                /\ session[s].google_drive_oauth_state # NoState
                /\ session'[s].google_drive_oauth_state = NoState ]_vars

SessionErrors ==
  {"SessionError", "MismatchingStateError", "Unhandled_MismatchingStateError"}

\* C4: a callback whose state parameter differs from the nonce stored when
\* the flow started ends in a session error, whatever the provider would
\* answer to the exchange, and writes nothing to the session, to the token
\* table or to the token file.
C4_MismatchedStateIsRejected ==
  \A s \in Sessions, stateParam \in 0..MaxNonce, exch \in Exchanges :
    /\ ( /\ session[s].google_oauth_state # NoState
         /\ stateParam # session[s].google_oauth_state )
         => LET e == google_callback_effect(s, stateParam, exch)
            IN  /\ e.res \in SessionErrors
                /\ e.session = session[s]
                /\ e.row = Row(s)
    /\ ( /\ session[s].google_drive_oauth_state # NoState
         /\ stateParam # session[s].google_drive_oauth_state )
         => LET e == google_drive_callback_effect(s, stateParam, exch)
            IN  /\ e.res \in SessionErrors
                /\ e.session = session[s]
                /\ e.file = tokenFile

\* A callback arrived with a state other than the stored one and was
\* turned away.
C4_Witness ==
  /\ last.res \in {"MismatchingStateError", "Unhandled_MismatchingStateError"}
  /\ \E s \in Sessions : session[s].google_oauth_state # NoState

\* C5: a credential without a refresh token is never persisted: not in the
\* session, not in the token table, not in the Drive token file.
C5_NoRecordWithoutRefreshToken ==
  /\ \A s \in Sessions :
       session[s].google_creds # None
         => session[s].google_creds.refresh_token # NoRT
  /\ \A u \in Users : dbTok[u] # None => dbTok[u].refresh_token # NoRT
  /\ tokenFile # None => tokenFile.refresh_token # NoRT

\* C6: once a calendar API call has been answered "unauthenticated" (HTTP
\* 401, or a refresh error raised by the client library during the call),
\* the stored record is gone and the next lookup of the principal finds
\* nothing.
C6_UnauthenticatedClearsRecord ==
  (last.of = "calendar" /\ last.res \in {"HttpError401", "ApiRefreshError"})
    => /\ \A u \in Users : dbTok[u] = None
       /\ \A s \in Authenticated : LoadCreds(s).creds = None

\* C7: once the provider has rejected a refresh, the record is deleted from
\* the durable store.
C7_RejectedRefreshDeletesRecord ==
  ( /\ last.of = "calendar"
    /\ last.refresh
    /\ last.res \in {"RefreshError", "Unhandled_RefreshError"} )
    => \A u \in Users : dbTok[u] = None

\* C8: after a disconnect, the credential lookup of every session of the
\* principal finds nothing.
C8_DisconnectIsGlobal ==
  (last.of = "calendar" /\ last.res \in {"disconnected", "redirect_to_connect"})
    => \A s \in Authenticated : LoadCreds(s).creds = None

\* The stored access token of each store never goes back to an older one.
NoStaleOverwrite ==
  /\ \A u \in Users :
       (dbTok[u] # None /\ dbTok'[u] # None)
         => dbTok'[u].token >= dbTok[u].token
  /\ (tokenFile # None /\ tokenFile' # None)
       => tokenFile'.token >= tokenFile.token

\* No two requests are refreshing the credential of one principal at once.
RefreshesSerialized ==
  \A w1, w2 \in Workers :
    (w1 # w2 /\ inflight[w1] # None /\ inflight[w2] # None)
      => \/ inflight[w1].of # inflight[w2].of
         \/ /\ inflight[w1].of = "calendar"
            /\ SessUser(inflight[w1].s) # SessUser(inflight[w2].s)

\* C9: concurrent refreshes for one principal run one after the other, and
\* none of them replaces a newer persisted token by an older one.
C9_RefreshesSerializedNoStaleOverwrite ==
  [] RefreshesSerialized /\ [][NoStaleOverwrite]_vars

\* C10: what the credential lookup of a principal returns is, field for
\* field, the record last written to the store for that principal.
C10_ReadBackIsWhatWasWritten ==
  \A s \in Authenticated :
    dbTok[SessUser(s)] # None
      => LET ld == LoadCreds(s)
         IN  ld.creds # None /\ to_json(ld.creds) = dbTok[SessUser(s)]

\* granted is the scope required, or a scope of the same family above it.
Broader(granted, required) ==
  /\ Len(granted) < Len(required)
  /\ SubSeq(required, 1, Len(granted)) = granted

Covers(grantedSet, requiredSet) ==
  \A r \in requiredSet : \E x \in grantedSet : x = r \/ Broader(x, r)

\* C11: the scope check accepts a credential only if its scopes cover the
\* required scope exactly or through a broader scope of the same family; a
\* credential that only has a narrower scope is rejected.
C11_NarrowerScopeIsRejected ==
  (last.of = "scope_check" /\ last.res = "accepted")
    => \E s \in Authenticated :
         Covers(session[s].google_creds.scopes, SCOPES)

C13_OneOAuthSessionPerPrincipal ==
  /\ \A s, t \in Authenticated :
       ( /\ s # t
         /\ SessUser(s) = SessUser(t)
         /\ session[s].google_oauth_state # NoState )
         => session[t].google_oauth_state = NoState
  /\ \A s, t \in Sessions :
       (s # t /\ session[s].google_drive_oauth_state # NoState)
         => session[t].google_drive_oauth_state = NoState


\* C14: a callback that completes the flow writes the new record to the
\* durable store of the user who started it (the token table for the
\* calendar, the token file for Drive), and a request of that user in a new
\* browser session finds a record.
C14_CompletedFlowIsDurable ==
  /\ \A s \in Sessions, stateParam \in 0..MaxNonce, exch \in Exchanges :
       /\ LET e == google_callback_effect(s, stateParam, exch)
          IN  e.res = "connected"
                => /\ is_authenticated(s)
                   /\ e.row = to_json(flow_credentials(exch, clock, SCOPES))
                   /\ ParsesAsUserInfo(e.row)
       /\ LET e == google_drive_callback_effect(s, stateParam, exch)
          IN  e.res = "connected"
                => e.file = flow_credentials(exch, clock, DRIVE_SCOPES)
  /\ (last.of = "calendar" /\ last.res = "connected")
       => \E u \in Users : _db_get_user_creds(u).creds # None
  /\ (last.of = "drive" /\ last.res = "connected") => tokenFile # None

\* A calendar flow has completed and the row of the user is there.
C14_Witness ==
  /\ last.of = "calendar"
  /\ last.res = "connected"
  /\ dbTok["u1"] # None


\* C15: a calendar view whose credential lookup fails to refresh recovers:
\* its request ends with the user sent to reconnect, never with the refresh
\* error unhandled.
C15_RefreshFailureIsRecovered ==
  (last.of = "calendar" /\ last.refresh)
    => last.res # "Unhandled_RefreshError"


\* C16: a stored record that cannot be parsed counts as absent: the lookup
\* raises nothing and no request ends with the parse error, handled or not.
C16_UnparsableRecordIsAbsent ==
  last.of = "calendar"
    => last.res \notin {"Unhandled_ValueError", "Error_ValueError"}


\* C17: without client credentials, starting a flow stores no state nonce
\* and answers with a configuration error instead of the redirect to the
\* provider, and a callback writes nothing: the calendar callback answers
\* with a configuration error, the Drive callback with that or with the
\* error of its missing state.
C17_MissingConfigurationStartsNothing ==
  \A s \in Sessions, stateParam \in 0..MaxNonce, exch \in Exchanges :
    /\ ~config.cal
         => /\ \A grant \in Grants, n \in Nonces :
                 LET e == conectar_effect(s, grant, n)
                 IN  /\ e.res = "ConfigurationError"
                     /\ e.session.google_oauth_state = NoState
                     /\ e.session.google_oauth_redirect_uri = NoState
                     /\ e.row = Row(s)
            /\ LET e == google_callback_effect(s, stateParam, exch)
               IN  /\ e.res = "ConfigurationError"
                   /\ e.session = session[s]
                   /\ e.row = Row(s)
    /\ ~config.drive
         => /\ \A n \in Nonces :
                 LET e == google_drive_connect_effect(s, n)
                 IN  /\ e.res = "ConfigurationError"
                     /\ e.session = session[s]
                     /\ e.file = tokenFile
            /\ LET e == google_drive_callback_effect(s, stateParam, exch)
               IN  /\ e.res \in {"ConfigurationError", "SessionError"}
                   /\ e.session = session[s]
                   /\ e.file = tokenFile

\* A flow was started without client credentials and turned down.
C17_Witness ==
  /\ ~config.cal
  /\ last.of = "calendar"
  /\ last.res = "ConfigurationError"


\* The calendar side and the Drive side of the state.
CalendarPart(ses, rows) ==
  <<rows, [s \in Sessions |-> <<ses[s].google_creds,
                                 ses[s].google_oauth_state,
                                 ses[s].google_oauth_redirect_uri>>]>>

DrivePart(ses, file) ==
  <<file, [s \in Sessions |-> ses[s].google_drive_oauth_state]>>

\* C18: a calendar request (connect, callback, lookup with or without
\* refresh, disconnect, reconnect) leaves the Drive token file and the Drive
\* state nonces as they are, and a Drive request leaves the token table,
\* the session copies and the calendar state nonces as they are.
C18_IntegrationsAreIndependent ==
  [][ /\ CalendarPart(session', dbTok') # CalendarPart(session, dbTok)
           => DrivePart(session', tokenFile') = DrivePart(session, tokenFile)
      /\ last'.of = "calendar"
           => DrivePart(session', tokenFile') = DrivePart(session, tokenFile)
      /\ last'.of = "drive"
           => CalendarPart(session', dbTok') = CalendarPart(session, dbTok)
    ]_vars

\* The calendar was disconnected while a Drive token and a Drive flow were
\* there, and both still are.
C18_Witness ==
  /\ last.of = "calendar"
  /\ last.res = "disconnected"
  /\ tokenFile # None
  /\ \E s \in Sessions : session[s].google_drive_oauth_state # NoState


C20_RefreshedRecordIsWhatTheNextLookupReturns ==
  /\ ( /\ last.of = "calendar"
       /\ last.refresh
       /\ last.res = "ok" )
       => \A s \in Authenticated, grant \in Grants :
            LET row == dbTok[SessUser(s)]
                r   == _get_valid_creds(s, grant)
            IN  /\ row # None
                /\ ~expired(row, clock)
                      => /\ r.exc = "none"
                         /\ ~r.refresh
                         /\ r.out # None
                         /\ to_json(r.out) = row
  /\ ( /\ last.of = "drive"
       /\ last.refresh
       /\ last.res = "ok" )
       => /\ tokenFile # None
          /\ \A grant \in Grants :
               ~expired(tokenFile, clock)
                 => LET r == _build_creds(tokenFile, grant, clock)
                    IN  r.out = tokenFile /\ ~r.refresh


(***************************************************************************)
(* Properties of the case files.                                           *)
(***************************************************************************)
\* C21: whatever the number of ensure_folder calls, and also when the calls
\* come from requests served at the same time, Drive holds at most one
\* folder of a given name under a given parent.
C21_AtMostOneFolderPerNameAndParent ==
  \A i, j \in drive :
    (i.mimeType = Folder /\ j.mimeType = Folder
       /\ i.name = j.name /\ i.parent = j.parent) => i = j


\* C22: the Drive credential is resolved in a fixed order.  While the token
\* file exists the OAuth token is the credential (a refresh the provider
\* refuses ends the call, it does not fall back); a service account is used
\* only without token file, the inline JSON before the file; and with
\* neither, the call ends in an error before any Drive call, whatever the
\* provider would have answered.
C22_CredentialPriority ==
  \A grant \in Grants :
    LET r == _svc(tokenFile, env, grant, clock)
        service_accounts == {"service_account_info", "service_account_file"}
    IN  /\ tokenFile # None =>
             \/ r.using = "oauth" /\ r.exc = "none"
             \/ r.using = "nothing" /\ r.exc = "RefreshError"
        /\ r.using \in service_accounts => tokenFile = None
        /\ (tokenFile = None /\ env.sa_json) => r.using = "service_account_info"
        /\ (tokenFile = None /\ ~env.sa_json /\ (env.gac \/ env.keys \/ env.sa_file))
             => r.using = "service_account_file"
        /\ (tokenFile = None /\ ~env.sa_json
              /\ ~env.gac /\ ~env.keys /\ ~env.sa_file)
             => (r.using = "nothing" /\ r.exc = "RuntimeError")
        /\ r.exc # "none" => r.using = "nothing"

\* A Drive operation used the OAuth token although a service account is
\* configured as well.
C22_Witness ==
  /\ last.of = "_svc"
  /\ last.res = "oauth"
  /\ tokenFile # None
  /\ env.sa_json


\* C23: upload_file with an empty parent_id puts the file in the configured
\* root container; without root container it raises and Drive gets no new
\* item; no file is ever in the root of the identity.
C23_UploadNeverGoesToIdentityRoot ==
  /\ \A i \in drive : i.mimeType # Folder => i.parent # MyDriveId
  /\ \A drv \in DriveOutcomes \cup CredsErrors :
     \A parent_id \in {NoId} \cup {i.id : i \in {j \in drive : j.mimeType = Folder}} :
       LET up == upload_file(CaseState, drv, "a.docx", parent_id, Docx)
           new == up.items \ drive
       IN  /\ (parent_id = NoId /\ ~env.root) => (up.exc # "none" /\ new = {})
           /\ (parent_id = NoId /\ env.root /\ up.exc = "none") =>
                \E i \in new : new = {i} /\ i.parent = RootContainerId
           /\ \A i \in new : i.parent # MyDriveId

\* An upload to a case without folder, in a deployment without root
\* container, ended in the error of upload_file.
C23_Witness ==
  /\ last.of = "SubirArchivoCasoView"
  /\ last.res = "Unhandled_RuntimeError_NoParent"
  /\ ~env.root
  /\ \A c \in CasoIds : casos[c].drive_folder_id = NoId
  /\ \A i \in drive : i.mimeType = Folder


\* C24: when a file-list request with sync=1 has been served, the rows of
\* the case are the files of the case folder: one row for each file Drive
\* holds in the folder, no row for anything else.
C24_SyncedRowsAreTheFolder ==
  \A u \in Requesters \ {Anon}, c \in CasoIds, drv \in DriveOutcomes :
    LET found == FoundCaseFolder(DriveOf(CaseState), casos[c])
        listed == ListaArchivosCasoView_get(CaseState, u, c, casos[c], FALSE,
                                            drv, found, {})
    IN  \A items \in list_files(listed.items, listed.casos[c].drive_folder_id) :
          LET k == ListaArchivosCasoView_get(CaseState, u, c, casos[c], TRUE,
                                             drv, found, items)
          IN  k.res = "200" =>
                {r.drive_file_id : r \in {x \in k.archivos : x.caso = c}}
                  = {i.id : i \in Children(k.items, k.casos[c].drive_folder_id)}


\* C25: the views that return the detail of a case, its file list, the
\* preview of a file or the content of a file answer with that data only
\* to an administrator, to the lawyer responsible for the case or to a
\* lawyer with an AccesoCaso of the case; anybody else, a browser without
\* login included, gets none of it.
C25_CaseDataOnlyForThoseWhoMaySee ==
  \A u \in Requesters, c \in CasoIds, drv \in DriveOutcomes :
    LET allowed == u # Anon /\ puede_ver_caso(u, c)
        found == FoundCaseFolder(DriveOf(CaseState), casos[c])
    IN  ~allowed =>
          /\ CasoDetailView_get(CaseState, u, c).res # "200"
          /\ \A do_sync \in BOOLEAN :
               LoginRequiredMixin(u,
                 ListaArchivosCasoView_get(CaseState, u, c, casos[c], do_sync,
                                           drv, found, {})).res # "200"
          /\ \A r \in {x \in archivos : x.caso = c} :
               /\ LoginRequiredMixin(u,
                    VerArchivoCasoView_get(CaseState, u, r.drive_file_id)).res
                    # "200"
               /\ LoginRequiredMixin(u,
                    DescargarArchivoCasoView_get(CaseState, u, r.drive_file_id,
                                                 drv)).res # "200"


\* What a request k adds to case c: files in its folder, rows.
NewFilesOfCase(k, c) ==
  {i \in k.items \ drive :
     i.mimeType # Folder /\ i.parent = k.casos[c].drive_folder_id}
NewRowsOfCase(k, c) ==
  {r.drive_file_id : r \in {x \in k.archivos : x.caso = c}}
    \ {r.drive_file_id : r \in {x \in archivos : x.caso = c}}
CreatesNothing(k, c) == NewFilesOfCase(k, c) = {} /\ NewRowsOfCase(k, c) = {}

\* C26: a requester for whom puede_subir_caso is false on a case creates,
\* through whatever file view, neither a file in the Drive folder of the
\* case nor an ArchivoCaso row of the case.
C26_NoUploadRightNoNewFileNoNewRow ==
  \A u \in Requesters, c \in CasoIds, drv \in DriveOutcomes :
    (u = Anon \/ ~puede_subir_caso(u, c)) =>
      /\ \A do_sync \in BOOLEAN :
         \A items \in list_files(drive, casos[c].drive_folder_id) :
           CreatesNothing(LoginRequiredMixin(u,
             ListaArchivosCasoView_get(CaseState, u, c, casos[c], do_sync, drv,
               FoundCaseFolder(DriveOf(CaseState), casos[c]), items)), c)
      /\ \A has_file \in BOOLEAN :
           CreatesNothing(LoginRequiredMixin(u,
             SubirArchivoCasoView_post(CaseState, u, c, has_file, drv)), c)
      /\ \A f \in ItemIds :
           /\ CreatesNothing(LoginRequiredMixin(u,
                VerArchivoCasoView_get(CaseState, u, f)), c)
           /\ CreatesNothing(LoginRequiredMixin(u,
                DescargarArchivoCasoView_get(CaseState, u, f, drv)), c)
           /\ CreatesNothing(LoginRequiredMixin(u,
                EditarArchivoCasoView_get(CaseState, u, f, drv)), c)


\* C27: the application-wide Drive token is created, replaced or deleted
\* only by the request of an authenticated user: a connect, callback or
\* disconnect request from a browser without login leaves the token file
\* as it is.
C27_AnonymousLeavesDriveTokenAlone ==
  \A s \in Sessions :
    ~is_authenticated(s) =>
      /\ \A n \in Nonces : google_drive_connect_effect(s, n).file = tokenFile
      /\ \A stateParam \in 0..MaxNonce, exch \in Exchanges :
           google_drive_callback_effect(s, stateParam, exch).file = tokenFile
      /\ google_drive_disconnect_effect(s).file = tokenFile


\* C28: the estado of a case is always one of ABIERTO, EN_PROCESO, CERRADO;
\* a change-state request with another value, or from a requester for whom
\* puede_subir_caso is false, leaves the estado as it is and records no
\* event; every accepted request records exactly one event.
C28_EstadoChangesAreValidAndRecordedOnce ==
  /\ \A c \in CasoIds : casos[c].estado \in ESTADOS
  /\ \A u \in Requesters, c \in CasoIds, nuevo_estado \in PostedEstados,
        drv \in DriveOutcomes \cup CredsErrors :
       LET k == LoginRequiredMixin(u,
                  CambiarEstadoCasoView_post(CaseState, u, c, nuevo_estado, drv))
           accepted == /\ u # Anon
                       /\ puede_subir_caso(u, c)
                       /\ nuevo_estado \in ESTADOS
       IN  /\ ~accepted => (k.casos[c].estado = casos[c].estado
                              /\ k.eventos = eventos)
           /\ accepted => k.eventos = eventos + 1


\* C29: saving a Caso terminates.  The post_save handler saves the case
\* again at most once, to store the new drive_folder_id; the handler run of
\* that nested save finds the folder id set and saves nothing; and when the
\* drive_folder_id is set already, the handler leaves it as it is.
C29_SaveTerminatesAfterAtMostOneNestedSave ==
  \A c \in CasoIds, nuevo_estado \in ESTADOS,
     drv \in DriveOutcomes \cup CredsErrors :
  \A fields \in {{"estado"}, DOMAIN casos[c]} :
    LET k == Caso_save(CaseState, drv, c,
                       [casos[c] EXCEPT !.estado = nuevo_estado], fields, 1)
    IN  /\ k.exc # "RecursionError"
        /\ k.saves <= 2
        /\ (casos[c].drive_folder_id = NoId /\ k.exc = "none") =>
             (k.saves = 2 /\ k.casos[c].drive_folder_id # NoId)
        /\ casos[c].drive_folder_id # NoId =>
             /\ k.saves = 1
             /\ k.casos[c].drive_folder_id = casos[c].drive_folder_id

\* A change-state request saved a case without folder: the handler made
\* the folder "<codigo> - <titulo>" and the nested save stored its id.
C29_Witness ==
  /\ last.of = "CambiarEstadoCasoView"
  /\ last.res = "302"
  /\ \E c \in CasoIds : \E i \in drive :
       /\ i.name = _case_folder_name(casos[c])
       /\ casos[c].drive_folder_id = i.id

=============================================================================
